---- MODULE Spec2Model ----
(***************************************************************************)
(* The crawl session of wind-web-crawler.py: the politeness governor       *)
(* (polite_get), the frontier with its traversal strategies (Frontier) and *)
(* the main loop (crawl), with the web, robots.txt files and the clock as  *)
(* the environment.                                                        *)
(*                                                                         *)
(* A canonical in-scope URL is a pair <<host, path>>.  Time is counted in  *)
(* ticks of 1/TicksPerSecond seconds.  One action is one iteration of the  *)
(* while loop of crawl, taken along one of its paths.                      *)
(***************************************************************************)
EXTENDS Integers, Sequences, FiniteSets, TLC

\* ------------------------------------------------------------------ bounds
NumHosts       == 2      \* hosts of the modelled web
NumPaths       == 2      \* paths per host
MaxSeeds       == 2      \* length of the seed list
MaxLinks       == 1      \* links extracted from one page
MaxBudget      == 2      \* largest --max-pages
TicksPerSecond == 1      \* resolution of the clock
MaxLatency     == 1      \* ticks one network operation or one parse may take
MaxPending     == 5      \* longest seed list given to the quantum sampler

\* --------------------------------------------------------------- constants
CONNECT_TIMEOUT    == 2                         \* seconds
MAX_BYTES_PER_HOST == 1000000
THROTTLE           == 1 * TicksPerSecond        \* THROTTLE = 1.0 seconds

Hosts  == 1..NumHosts
URLs   == Hosts \X (1..NumPaths)
NoURL  == <<0, 0>>
None   == 0                                     \* Frontier.momentum = None

Strategies == {"brownian", "levy", "ballistic", "wind", "dla", "quantum",
               "other"}

\* the strategies the command line accepts
Choices == {"brownian", "levy", "ballistic", "wind", "dla", "quantum"}

\* time.time() when the session starts: far beyond THROTTLE after the epoch,
\* which is the default 0.0 of host_last
StartTime == 2 * THROTTLE

\* the longest list the frontier can hold: the seeds and the links of
\* max_pages pages
MaxQueue ==
    (IF MaxPending > MaxSeeds THEN MaxPending ELSE MaxSeeds)
    + MaxBudget * MaxLinks

\* polite_get is called at most once per frontier entry
MaxCalls == MaxQueue
\* sess.get raises Timeout when connecting has taken CONNECT_TIMEOUT (a read
\* that times out takes longer: READ_TIMEOUT, which is larger, after the
\* connection)
TimeoutTicks == CONNECT_TIMEOUT * TicksPerSecond

\* the clock cannot pass MaxClock within MaxCalls calls
MaxClock ==
    StartTime
    + MaxCalls * (THROTTLE + 2 * MaxLatency + TimeoutTicks)

\* lengths of response bodies the web may serve
BodySizes == {0, MAX_BYTES_PER_HOST, MAX_BYTES_PER_HOST + 1}

Min(a, b) == IF a < b THEN a ELSE b

\* ------------------------------------------------------------- URL helpers
netloc(u) == u[1]

\* ------------------------------------------------ urllib.robotparser rules
\* What rp.read() leaves in a fresh RobotFileParser, by what the request for
\* robots.txt met:
\*   "parsed"   a body was received and parsed (unknown lines are ignored, so
\*              a malformed body parses to rules that deny nothing);
\*              denied = the URLs its rules deny to UA
\*   "raised"   read() raised (URLError, socket timeout, undecodable body):
\*              the except clause assigns disallow_all = False
\* (An HTTP error status is handled inside read(), which sets disallow_all
\* for 401 and 403 and allow_all for another 4xx; these answers are not among
\* the ones enumerated here, so both flags stay as the constructor set them.)
RobotsOutcomes == {"parsed", "raised"}

robots_read(outcome, denied) ==
    [disallow_all |-> FALSE,
     allow_all    |-> FALSE,
     last_checked |-> outcome = "parsed",
     denied       |-> IF outcome = "parsed" THEN denied ELSE {},
     outcome      |-> outcome]

\* RobotFileParser.can_fetch of the standard library: disallow_all, then
\* allow_all, then "until the robots.txt file has been read or found not to
\* exist, we must assume that no url is allowable" (last_checked is set by
\* parse() only), then the parsed rules.
can_fetch(rp, url) ==
    IF rp.disallow_all THEN FALSE
    ELSE IF rp.allow_all THEN TRUE
    ELSE IF ~rp.last_checked THEN FALSE
    ELSE url \notin rp.denied

\* ---------------------------------------------------------------- governor
\* a wait that is one tick short
ThrottleWait_short(t, last) == THROTTLE - 1 - (t - last)

ThrottleWait(t, last) == THROTTLE - (t - last)

\* the counter is assigned the body length instead of being increased by it
new_host_bytes_reset(old, len) == len

new_host_bytes(old, len) == old + len

\* the cap is compared one byte too high
byte_cap_hit_late(total) == total > MAX_BYTES_PER_HOST + 1

byte_cap_hit(total) == total > MAX_BYTES_PER_HOST

\* The environment of one call: what the robots.txt request meets (used
\* only when the host has no cached rules), what the page request meets and
\* how long it takes.
\* ("http_error": raise_for_status raises; any other exception of sess.get
\* takes the same path through crawl)
Responses == {"2xx", "http_error", "timeout"}

\* the rules are kept only when robots.txt could be read
robots_store_if_read(robots, host, rp) ==
    IF rp.outcome = "raised" THEN robots
    ELSE [h \in DOMAIN robots \cup {host} |-> IF h = host THEN rp ELSE robots[h]]

\* robots[host] = rp
robots_store(robots, host, rp) ==
    [h \in DOMAIN robots \cup {host} |-> IF h = host THEN rp ELSE robots[h]]

polite_get(url, host_last, host_bytes, robots, t, env) ==
    LET host  == netloc(url)
        asked == host \notin DOMAIN robots
        rp    == IF asked THEN robots_read(env.robots, env.denied)
                 ELSE robots[host]
        rb    == IF asked THEN robots_store(robots, host, rp) ELSE robots
        wait  == ThrottleWait(t, host_last[host])
        slept == IF wait > 0 THEN wait ELSE 0
        start == t + slept
        end   == start + env.latency
        total == new_host_bytes(host_bytes[host], env.size)
        base  == [ret |-> "ok", host_last |-> host_last,
                  host_bytes |-> host_bytes, robots |-> rb, now |-> t,
                  start |-> 0, slept |-> 0, ctype |-> env.ctype,
                  asked |-> asked]
    IN  IF ~can_fetch(rp, url)
        THEN [base EXCEPT !.ret = "PermissionError"]
        ELSE IF env.resp = "timeout"
        THEN [base EXCEPT !.ret = "Timeout", !.now = end, !.start = start, !.slept = slept]
        ELSE IF env.resp = "http_error"
        THEN [base EXCEPT !.ret = "HTTPError", !.now = end, !.start = start, !.slept = slept]
        ELSE [base EXCEPT
                !.ret = IF byte_cap_hit(total) THEN "MemoryError" ELSE "ok",
                !.host_last = [host_last EXCEPT ![host] = end],
                !.host_bytes = [host_bytes EXCEPT ![host] = total],
                !.now = end, !.start = start, !.slept = slept]

\* ------------------------------------------------- tiny quantum simulator
\* Amplitudes are kept as integers: H is scaled by sqrt(2), which changes
\* no amplitude's being zero or not.
H == << <<1, 1>>, <<1, -1>> >>

kron(a, b) ==
    LET ra == Len(a)  ca == Len(a[1])
        rb == Len(b)  cb == Len(b[1])
    IN  [r \in 1..(ra * rb) |->
           [c \in 1..(ca * cb) |->
              a[((r - 1) \div rb) + 1][((c - 1) % ca) + 1]
              * b[((r - 1) % rb) + 1][((c - 1) \div ca) + 1]]]

RECURSIVE gate_loop(_, _, _)
gate_loop(g, q, target) ==
    IF q < 0 THEN g
    ELSE gate_loop(IF q # target THEN kron(g, << <<1, 0>>, <<0, 1>> >>)
                   ELSE kron(g, << <<1>> >>),
                   q - 1, target)

nqubit_gate(single, target, n) == gate_loop(single, n - 1, target)

RECURSIVE SumTo(_, _)
SumTo(f, n) == IF n = 0 THEN 0 ELSE f[n] + SumTo(f, n - 1)

apply(g, state) ==
    [i \in 1..Len(state) |->
       SumTo([j \in 1..Len(state) |-> g[i][j] * state[j]], Len(state))]

RECURSIVE Pow2(_)
Pow2(q) == IF q = 0 THEN 1 ELSE 2 * Pow2(q - 1)

\* ceil(log2(max(2, n)))
RECURSIVE qubits_from(_, _)
qubits_from(n, q) == IF Pow2(q) >= n THEN q ELSE qubits_from(n, q + 1)
Qubits(n) == qubits_from(n, 1)

RECURSIVE hadamard_loop(_, _, _)
hadamard_loop(state, qubit, q) ==
    IF qubit >= q THEN state
    ELSE hadamard_loop(apply(nqubit_gate(H, qubit, q), state), qubit + 1, q)

quantum_state(n) ==
    LET q == Qubits(n)
    IN  hadamard_loop([i \in 1..Pow2(q) |-> IF i = 1 THEN 1 ELSE 0], 0, q)

\* the indices (from 1) measure can return: those of non-zero amplitude,
\* where r <= acc can come true, and the last one, returned after the loop
\* (the squares add up to less than 1.0 in floating point, and r can be
\* larger)
measure(state) == {i \in 1..Len(state) : state[i] # 0} \cup {Len(state)}

\* by the length n of the list: the indices at which the loop "while idx >=
\* n" of quantum_choice can end (draws beyond n are measured again)
quantum_draws ==
    [n \in 1..MaxQueue |-> {j \in measure(quantum_state(n)) : j <= n}]

\* the items quantum_choice can return
quantum_choice(items) == {items[i] : i \in quantum_draws[Len(items)]}

\* ---------------------------------------------------------------- frontier
\* pop returns the entry and leaves it in the list
Remove_keep(q, idx) == q

Remove(q, idx) == SubSeq(q, 1, idx - 1) \o SubSeq(q, idx + 1, Len(q))

\* the last position holding the value
index_last(q, v) == CHOOSE i \in 1..Len(q) : q[i] = v /\ \A j \in (i + 1)..Len(q) : q[j] # v

\* list.index: the first position holding the value
index(q, v) == CHOOSE i \in 1..Len(q) : q[i] = v /\ \A j \in 1..(i - 1) : q[j] # v

\* every link is appended, whatever cluster holds
push_many_all(q, links, strategy, cluster) == q \o links

RECURSIVE push_many(_, _, _, _)
push_many(q, links, strategy, cluster) ==
    IF links = <<>> THEN q
    ELSE push_many(IF strategy = "dla" /\ Head(links) \in cluster THEN q
                   ELSE Append(q, Head(links)),
                   Tail(links), strategy, cluster)

\* the values levy_len can take, as far as min(levy_len, len(queue)) differs
levy_len(n) == 1..(n + 1)

\* pop takes the last entry
pop_idx_last(strategy, q, momentum, coin) == {Len(q)}

\* The indices (from 1) Frontier.pop may choose.  coin is the outcome of
\* rnd.random() < 0.85.  Every weight of the wind strategy is at least 1, so
\* its draw can fall on any index.
pop_idx(strategy, q, momentum, coin) ==
    CASE strategy = "brownian"  -> 1..Len(q)
      [] strategy = "levy"      ->
            UNION {1..Min(L, Len(q)) : L \in levy_len(Len(q))}
      [] strategy = "ballistic" ->
            IF momentum # None /\ coin
            THEN IF \E i \in 1..Len(q) : netloc(q[i]) = momentum
                 THEN {CHOOSE i \in 1..Len(q) :
                          /\ netloc(q[i]) = momentum
                          /\ \A j \in 1..(i - 1) : netloc(q[j]) # momentum}
                 ELSE {1}
            ELSE {1}
      [] strategy = "wind"      -> 1..Len(q)
      [] strategy = "dla"       -> {1}
      [] strategy = "quantum"   -> {index(q, chosen) : chosen \in quantum_choice(q)}
      [] OTHER                  -> {1}

\* pop leaves momentum as it was
pop_momentum_keep(strategy, q, idx, momentum) == momentum

\* self.momentum after pop
pop_momentum(strategy, q, idx, momentum) ==
    IF strategy = "ballistic" THEN netloc(q[idx]) ELSE momentum

\* --------------------------------------------------------- crawl: helpers
\* the budget test lets one more iteration run
loop_cond_le(q, vis, budget) == q # <<>> /\ Cardinality(vis) <= budget

\* the condition of the while loop
loop_cond(q, vis, budget) == q # <<>> /\ Cardinality(vis) < budget

\* the visited test is left out
seen_never(url, vis) == FALSE

\* "if url in visited: continue"
seen(url, vis) == url \in vis

\* visited.add(url) placed before the call of polite_get
visited_add_early(vis, url, ret) == vis \cup {url}

\* visited.add(url) is reached only when polite_get returned
visited_add(vis, url, ret) == IF ret = "ok" THEN vis \cup {url} ELSE vis

\* every page is taken for HTML
is_html_always(ctype) == TRUE

\* "text/html" in ctype
is_html(ctype) == ctype = "text/html"

\* the except clause gives up everything that is pending
crawl_except_clear(q, url) == << >>

\* the except clause puts the URL back for another try
crawl_except_retry(q, url) == Append(q, url)

\* the frontier queue after an except clause ("continue"): as pop left it
crawl_except(q, url) == q

\* the orders in which a set of links may be iterated
Orderings(S) ==
    {o \in [1..Cardinality(S) -> S] : \A i, j \in DOMAIN o : o[i] = o[j] => i = j}

LinkSets == {L \in SUBSET URLs : Cardinality(L) <= MaxLinks}

\* the rules a parsed robots.txt of a host may hold: none, or a Disallow of
\* the host's first path
DeniedSets(host) == {{}, {<<host, 1>>}}

\* what the environment may answer to one call of polite_get, when no
\* operation takes more than delay ticks
RobotsEnvs(host, rb) ==
    IF host \in DOMAIN rb THEN {[robots |-> "parsed", denied |-> {}]}
    ELSE {[robots |-> "parsed", denied |-> D] : D \in DeniedSets(host)}
         \cup {[robots |-> o, denied |-> {}] : o \in RobotsOutcomes \ {"parsed"}}

PageEnvs(delay) ==
    {[resp |-> "2xx", latency |-> d, size |-> n, ctype |-> c] :
        d \in 0..delay, n \in BodySizes, c \in {"text/html", "image/png"}}
    \cup {[resp |-> "http_error", latency |-> d, size |-> 0, ctype |-> ""] :
        d \in 0..delay}
    \cup {[resp |-> "timeout", latency |-> d, size |-> 0, ctype |-> ""] :
        d \in {TimeoutTicks}}

Envs(url, rb, delay) ==
    {[robots |-> re.robots, denied |-> re.denied, resp |-> pe.resp,
      latency |-> pe.latency, size |-> pe.size, ctype |-> pe.ctype] :
        re \in RobotsEnvs(netloc(url), rb), pe \in PageEnvs(delay)}

\* ------------------------------------------------------------------- state
VARIABLES
    strategy,     \* crawl's strategy argument
    max_pages,    \* crawl's max_pages argument
    queue,        \* frontier.queue
    momentum,     \* frontier.momentum
    cluster,      \* frontier.cluster
    visited,      \* visited
    host_last,    \* host_last (a defaultdict: 0 where never set)
    host_bytes,   \* host_bytes (a defaultdict: 0 where never set)
    robots,       \* robots: host -> its RobotFileParser
    rows,         \* the URLs of the rows given to writer.writerow, in order
    now,          \* the clock, time.time()
    pc,           \* "loop" while the while loop runs, "done" after it
    net_delay,    \* environment: the most ticks one operation of this
                  \* session takes (a request, a parse)
    failed,       \* history: the URLs for which polite_get raised
    calls,        \* history: the number of calls of polite_get
    req_at,       \* history: host -> when its latest page request started
                  \* (0: none yet)
    last          \* history: the latest iteration of the loop

vars == <<strategy, max_pages, queue, momentum, cluster, visited, host_last,
          host_bytes, robots, rows, now, pc, net_delay, failed, calls, req_at,
          last>>

\* the seed lists; the first seed is the first path of the first host
SeedLists == {s \in UNION {[1..n -> URLs] : n \in 1..MaxSeeds} : s[1] = <<1, 1>>}

NoIteration ==
    [url |-> NoURL, ret |-> "none", start |-> 0, slept |-> 0, again |-> FALSE,
     idx |-> 0, coin |-> FALSE, asked |-> FALSE, ctype |-> "", links |-> << >>]

\* crawl(seeds, strategy, max_pages, writer) up to its while loop
Session(seedlists, strategies, budgets, delay) ==
    \E seeds \in seedlists :
       /\ strategy \in strategies
       /\ max_pages \in budgets
       /\ queue = push_many(<<seeds[1]>>, Tail(seeds), strategy, {seeds[1]})
       /\ momentum = None
       /\ cluster = {seeds[1]}
       /\ visited = {}
       /\ host_last = [h \in Hosts |-> 0]
       /\ host_bytes = [h \in Hosts |-> 0]
       /\ robots = << >>
       /\ rows = << >>
       /\ now = StartTime
       /\ pc = "loop"
       /\ net_delay = delay
       /\ failed = {}
       /\ calls = 0
       /\ req_at = [h \in Hosts |-> 0]
       /\ last = NoIteration

\* every strategy, on a network that answers within the tick
Init == Session(SeedLists, Strategies, 0..MaxBudget, 0)

\* requests and parses take up to MaxLatency ticks
InitTimed == Session(SeedLists, {"brownian"}, 0..MaxBudget, MaxLatency)

\* the seed lists of up to MaxPending entries that go round the first pages
\* of the hosts
LongSeedLists ==
    {[i \in 1..n |-> <<((i - 1) % NumHosts) + 1, 1>>] : n \in 1..MaxPending}

\* the quantum strategy, on seed lists long enough for three qubits
InitQuantum == Session(LongSeedLists, {"quantum"}, 0..MaxBudget, 0)

\* ----------------------------------------------------------------- actions
Running == pc = "loop" /\ loop_cond(queue, visited, max_pages)

\* frontier.pop() chooses idx
Pops(idx, coin) ==
    /\ Running
    /\ idx \in pop_idx(strategy, queue, momentum, coin)
    /\ momentum' = pop_momentum(strategy, queue, idx, momentum)

\* what an iteration shows of its dequeue: the index popped and, under the
\* ballistic strategy with a momentum, the outcome of the 0.85 trial
Dequeued(idx, coin) ==
    [NoIteration EXCEPT
       !.url = queue[idx], !.idx = idx,
       !.coin = strategy = "ballistic" /\ momentum # None /\ coin]

\* the record of an iteration that called polite_get with result r and gave
\* links to push_many
Observed(idx, coin, r, links) ==
    [Dequeued(idx, coin) EXCEPT
       !.ret = r.ret, !.start = r.start, !.slept = r.slept,
       !.again = queue[idx] \in failed, !.asked = r.asked,
       !.ctype = IF r.ret = "ok" THEN r.ctype ELSE "",
       !.links = links]

\* what every iteration that calls polite_get does with its result r
Governed(idx, coin, r, links) ==
    /\ calls < MaxCalls
    /\ r.now <= MaxClock
    /\ host_last' = r.host_last
    /\ host_bytes' = r.host_bytes
    /\ robots' = r.robots
    /\ now' = r.now
    /\ calls' = calls + 1
    /\ req_at' = IF r.ret = "PermissionError" THEN req_at
                 ELSE [req_at EXCEPT ![netloc(queue[idx])] = r.start]
    /\ last' = Observed(idx, coin, r, links)
    /\ visited' = visited_add(visited, queue[idx], r.ret)
    /\ failed' = IF r.ret = "ok" THEN failed ELSE failed \cup {queue[idx]}
    /\ UNCHANGED <<strategy, max_pages, pc, net_delay>>

\* polite_get raised one of errs: the except clause goes on with the next
\* iteration
Raised(idx, coin, e, env, errs) ==
    LET url == queue[idx]
        r   == polite_get(url, host_last, host_bytes, robots, now + e, env)
    IN  /\ Pops(idx, coin)
        /\ ~seen(url, visited)
        /\ r.ret \in errs
        /\ Governed(idx, coin, r, << >>)
        /\ queue' = crawl_except(Remove(queue, idx), url)
        /\ UNCHANGED <<rows, cluster>>

\* the popped URL is in visited already
SkipVisited(idx, coin) ==
    /\ Pops(idx, coin)
    /\ seen(queue[idx], visited)
    /\ queue' = Remove(queue, idx)
    /\ last' = [Dequeued(idx, coin) EXCEPT !.ret = "skip"]
    /\ UNCHANGED <<strategy, max_pages, cluster, visited, host_last,
                   host_bytes, robots, rows, now, pc, net_delay, failed,
                   calls, req_at>>

RobotsDisallowed(idx, coin, e, env) ==
    Raised(idx, coin, e, env, {"PermissionError"})

QuotaExceeded(idx, coin, e, env) ==
    Raised(idx, coin, e, env, {"MemoryError"})

FetchTimeout(idx, coin, e, env) ==
    Raised(idx, coin, e, env, {"Timeout"})

FetchError(idx, coin, e, env) ==
    Raised(idx, coin, e, env, {"HTTPError"})

\* polite_get returned a page that is not HTML
FetchedOther(idx, coin, e, env) ==
    LET url == queue[idx]
        r   == polite_get(url, host_last, host_bytes, robots, now + e, env)
    IN  /\ Pops(idx, coin)
        /\ ~seen(url, visited)
        /\ r.ret = "ok"
        /\ ~is_html(r.ctype)
        /\ Governed(idx, coin, r, << >>)
        /\ queue' = Remove(queue, idx)
        /\ UNCHANGED <<rows, cluster>>

\* polite_get returned an HTML page; scrape_meta and extract_links return
FetchedHtml(idx, coin, e, env, order) ==
    LET url == queue[idx]
        r   == polite_get(url, host_last, host_bytes, robots, now + e, env)
    IN  /\ Pops(idx, coin)
        /\ ~seen(url, visited)
        /\ r.ret = "ok"
        /\ is_html(r.ctype)
        /\ Governed(idx, coin, r, order)
        /\ rows' = Append(rows, url)
        /\ queue' = push_many(Remove(queue, idx), order, strategy, cluster)
        /\ cluster' = IF strategy = "dla" THEN cluster \cup {url} ELSE cluster

\* polite_get returned an HTML page and scrape_meta raises: "except
\* Exception" goes on with the next iteration
MetaRaises(idx, coin, e, env) ==
    LET url == queue[idx]
        r   == polite_get(url, host_last, host_bytes, robots, now + e, env)
    IN  /\ Pops(idx, coin)
        /\ ~seen(url, visited)
        /\ r.ret = "ok"
        /\ is_html(r.ctype)
        /\ Governed(idx, coin, r, << >>)
        /\ queue' = crawl_except(Remove(queue, idx), url)
        /\ UNCHANGED <<rows, cluster>>

\* the row is written and then extract_links raises
LinksRaise(idx, coin, e, env) ==
    LET url == queue[idx]
        r   == polite_get(url, host_last, host_bytes, robots, now + e, env)
    IN  /\ Pops(idx, coin)
        /\ ~seen(url, visited)
        /\ r.ret = "ok"
        /\ is_html(r.ctype)
        /\ Governed(idx, coin, r, << >>)
        /\ rows' = Append(rows, url)
        /\ queue' = crawl_except(Remove(queue, idx), url)
        /\ UNCHANGED cluster

\* the while condition is false: the loop ends
LoopExit ==
    /\ pc = "loop"
    /\ ~loop_cond(queue, visited, max_pages)
    /\ pc' = "done"
    /\ UNCHANGED <<strategy, max_pages, queue, momentum, cluster, visited,
                   host_last, host_bytes, robots, rows, now, net_delay,
                   failed, calls, req_at, last>>

\* the inputs of one iteration: the index pop draws, the 0.85 coin of the
\* ballistic strategy, the ticks that pass before polite_get reads the
\* clock, and what the network answers
Draws == {[idx |-> i, coin |-> c] : i \in 1..Len(queue), c \in BOOLEAN}

Inputs ==
    UNION {{[idx |-> d.idx, coin |-> d.coin, e |-> e, env |-> env] :
              e \in 0..net_delay,
              env \in Envs(queue[d.idx], robots, net_delay)} : d \in Draws}

Next ==
    \/ \E d \in Draws : SkipVisited(d.idx, d.coin)
    \/ \E i \in Inputs : RobotsDisallowed(i.idx, i.coin, i.e, i.env)
    \/ \E i \in Inputs : QuotaExceeded(i.idx, i.coin, i.e, i.env)
    \/ \E i \in Inputs : FetchTimeout(i.idx, i.coin, i.e, i.env)
    \/ \E i \in Inputs : FetchError(i.idx, i.coin, i.e, i.env)
    \/ \E i \in Inputs : FetchedOther(i.idx, i.coin, i.e, i.env)
    \/ \E i \in Inputs : MetaRaises(i.idx, i.coin, i.e, i.env)
    \/ \E i \in Inputs : LinksRaise(i.idx, i.coin, i.e, i.env)
    \/ \E i \in Inputs, links \in LinkSets :
          \E order \in Orderings(links \ (visited \cup {queue[i.idx]})) :
             FetchedHtml(i.idx, i.coin, i.e, i.env, order)
    \/ LoopExit

Spec == Init /\ [][Next]_vars

TimedSpec == InitTimed /\ [][Next]_vars

QuantumSpec == InitQuantum /\ [][Next]_vars

\* the process is not suspended for ever: an iteration that can run does
FairSpec == Spec /\ WF_vars(Next)

\* ================================================================== claims
Count(q, u) == Cardinality({i \in DOMAIN q : q[i] = u})

RowURLs == {rows[i] : i \in DOMAIN rows}

\* this step is an iteration that called polite_get
Called == calls' = calls + 1

\* C1: no URL appears in more than one row given to the writer.
C1_RowsUnique ==
    \A i, j \in DOMAIN rows : rows[i] = rows[j] => i = j

\* a URL that already has its row was dequeued again, and skipped
C1_Witness ==
    /\ last.ret = "skip"
    /\ last.url \in RowURLs

\* C2 (as claimed): a URL whose fetch attempt failed is never passed to
\* polite_get again in the session.
C2_NeverReattempted ==
    last.ret \notin {"none", "skip"} => ~last.again

\* C2 (amended): a failed attempt is not retried on its own.  The failing
\* iteration takes the URL's entry out of pending and appends nothing, and
\* every URL passed to polite_get is taken from a pending entry; a failed URL
\* is attempted again only through another entry of it.
C2_NoRetryOfItsOwn ==
    [][Called =>
         /\ Count(queue, last'.url) >= 1
         /\ last'.ret # "ok" =>
               \A u \in URLs :
                  Count(queue', u)
                     = Count(queue, u) - (IF u = last'.url THEN 1 ELSE 0)]_vars

\* a URL that had failed was dequeued from another entry, attempted again
\* and failed again
C2_Witness ==
    /\ last.again
    /\ last.ret \in {"PermissionError", "MemoryError", "Timeout", "HTTPError"}

\* C3: a page request to a host starts at least THROTTLE after the time
\* recorded for the host's latest successful request, which is not before
\* that request started; a host with nothing recorded is not waited for.
C3_ThrottleGap ==
    [][(Called /\ last'.ret # "PermissionError") =>
         LET h == netloc(last'.url)
         IN  /\ last'.start >= host_last[h] + THROTTLE
             /\ host_last[h] = 0 => last'.slept = 0
             /\ last'.ret \in {"ok", "MemoryError"} =>
                   host_last'[h] >= last'.start]_vars

\* a successful fetch that had to sleep: the host was fetched before, less
\* than THROTTLE ago
C3_Witness ==
    /\ last.ret = "ok"
    /\ last.slept > 0

\* C4 (as claimed): a page request that fails with a non-2xx status or a
\* timeout still sets host_last of its host to the time of the attempt, so
\* every page request to a host starts at least THROTTLE after the start of
\* the host's previous page request, whatever became of that one.
C4_GapAfterFailedRequest ==
    [][(/\ Called
        /\ last'.ret # "PermissionError"
        /\ req_at[netloc(last'.url)] # 0) =>
         last'.start >= req_at[netloc(last'.url)] + THROTTLE]_vars

\* C5 (as claimed): once host_bytes of a host is above the quota, every
\* later polite_get for the host raises MemoryError and leaves the counter
\* unchanged.
C5_QuotaErrorNoBytes ==
    [][(Called /\ byte_cap_hit(host_bytes[netloc(last'.url)])) =>
         LET h == netloc(last'.url)
         IN  /\ last'.ret = "MemoryError"
             /\ host_bytes'[h] = host_bytes[h]]_vars

\* C5 (amended): once host_bytes of a host is above the quota, no later
\* polite_get for the host returns, so its URL is not added to visited; the
\* counter never decreases, and a call that changes it has fetched a
\* response, added its length and raised MemoryError.
C5_QuotaStaysTripped ==
    [][(Called /\ host_bytes[netloc(last'.url)] > MAX_BYTES_PER_HOST) =>
         LET h == netloc(last'.url)
         IN  /\ last'.ret # "ok"
             /\ last'.url \notin visited'
             /\ host_bytes'[h] >= host_bytes[h]
             /\ host_bytes'[h] # host_bytes[h] => last'.ret = "MemoryError"]_vars

\* a call raised MemoryError for a host that was above the quota before it,
\* and added a body to the counter: a call that crosses the quota leaves at
\* most 2 * MAX_BYTES_PER_HOST + 1
C5_Witness ==
    /\ last.ret = "MemoryError"
    /\ host_bytes[netloc(last.url)] > 2 * MAX_BYTES_PER_HOST + 1

\* C6 (as claimed): the call whose response carries host_bytes of the host
\* above the quota returns, and its URL is added to visited.
C6_CrossingFetchSucceeds ==
    [][(/\ Called
        /\ host_bytes[netloc(last'.url)] <= MAX_BYTES_PER_HOST
        /\ host_bytes'[netloc(last'.url)] > MAX_BYTES_PER_HOST) =>
         /\ last'.ret = "ok"
         /\ last'.url \in visited']_vars

\* C6 (amended): the call whose response carries host_bytes of the host
\* above the quota raises MemoryError: the bytes are counted, the URL is not
\* added to visited and no row is written.
C6_CrossingFetchFails ==
    [][(/\ Called
        /\ host_bytes[netloc(last'.url)] <= MAX_BYTES_PER_HOST
        /\ host_bytes'[netloc(last'.url)] > MAX_BYTES_PER_HOST) =>
         /\ last'.ret = "MemoryError"
         /\ last'.url \notin visited'
         /\ rows' = rows]_vars

\* the first call of the session got a body larger than the quota
C6_Witness ==
    /\ calls = 1
    /\ last.ret = "MemoryError"
    /\ host_bytes[netloc(last.url)] > MAX_BYTES_PER_HOST

\* C7: a call that the robots rules deny does not wait, and leaves
\* host_last and host_bytes of every host, visited and the rows unchanged.
C7_DenialChangesNothing ==
    [][(Called /\ last'.ret = "PermissionError") =>
         /\ host_last' = host_last
         /\ host_bytes' = host_bytes
         /\ visited' = visited
         /\ rows' = rows
         /\ last'.slept = 0]_vars

\* parsed rules denied a URL when pages had been fetched and rows written
C7_Witness ==
    /\ last.ret = "PermissionError"
    /\ robots[netloc(last.url)].outcome = "parsed"
    /\ last.url \in robots[netloc(last.url)].denied
    /\ \E h \in Hosts : host_last[h] > 0 /\ host_bytes[h] > 0
    /\ rows # << >>

\* C8 (as claimed): when reading robots.txt of a host failed, no call for
\* that host raises PermissionError.
C8_FailOpen ==
    last.ret = "PermissionError" =>
       robots[netloc(last.url)].outcome # "raised"

\* what is left to do: the pending entries, and for every page of the budget
\* not yet used the entries its links may add
C9_Remaining ==
    (IF pc = "loop" THEN 1 ELSE 0)
    + Len(queue)
    + MaxLinks * (max_pages - Cardinality(visited))

\* C9: every step of the loop, whatever the outcome of its fetch, leaves less
\* to do, and the loop ends, with the queue empty or the budget reached.
C9_Terminates ==
    /\ [][C9_Remaining' < C9_Remaining]_vars
    /\ <>(pc = "done" /\ (queue = << >> \/ Cardinality(visited) >= max_pages))

\* the loop ended after fetches that failed and fetches that succeeded
C9_Witness ==
    /\ pc = "done"
    /\ failed # {}
    /\ visited # {}

\* C10: with max_pages > 0, visited never holds more than max_pages URLs,
\* and polite_get is not called once it holds max_pages.
C10_PageBudget ==
    /\ [](max_pages > 0 => Cardinality(visited) <= max_pages)
    /\ [][(max_pages > 0 /\ Called) => Cardinality(visited) < max_pages]_vars

\* the budget was reached with entries still pending
C10_Witness ==
    /\ max_pages > 0
    /\ Cardinality(visited) = max_pages
    /\ queue # << >>
    /\ pc = "done"

\* this step is an iteration of the while loop
Iterates == pc' = "loop"

\* C11: under the dla strategy cluster only grows, and push_many appends no
\* URL that is in cluster when it is called: not a seed at construction, not
\* a link of a fetched page.
C11_ClusterMonotone ==
    /\ [](strategy = "dla" /\ last.ret = "none" =>
             \A u \in cluster : Count(queue, u) = 1)
    /\ [][strategy = "dla" =>
             /\ cluster \subseteq cluster'
             /\ \A u \in cluster : Count(queue', u) <= Count(queue, u)]_vars

\* under dla a page linked to a URL of cluster, and the link was not appended
C11_Witness ==
    /\ strategy = "dla"
    /\ \E i \in DOMAIN last.links :
          /\ last.links[i] \in cluster
          /\ Count(queue, last.links[i]) = 0

\* the indices (from 1) quantum_choice can pick of a list of n items
sample(n) == quantum_choice([i \in 1..n |-> i])

\* every basis state has the same non-zero magnitude
Uniform(state) ==
    \A i \in DOMAIN state :
       state[i] # 0 /\ state[i] * state[i] = state[1] * state[1]

\* C12 (as claimed): for the n entries pending when the quantum strategy
\* dequeues, the sampler returns an index below n, the state after the
\* Hadamard gates has the same non-zero magnitude on every basis state, and
\* every index below n can be returned.
C12_UniformSampler ==
    (strategy = "quantum" /\ Running) =>
       /\ sample(Len(queue)) \subseteq 1..Len(queue)
       /\ Uniform(quantum_state(Len(queue)))
       /\ sample(Len(queue)) = 1..Len(queue)

\* C13 (as claimed): no dequeue is performed under a strategy outside the
\* six of the command line, the construction of the Frontier having failed.
C13_NoDequeueUnderUnknown ==
    strategy \notin Choices => last.ret = "none"

\* C13 (amended): a Frontier is constructed for any strategy, with the first
\* seed pending; under a strategy outside the six every dequeue takes the
\* entry at index 0 and leaves momentum alone.
C13_UnknownPopsFirst ==
    /\ [](strategy \notin Choices /\ last.ret = "none" =>
             queue # << >> /\ cluster = {queue[1]} /\ momentum = None)
    /\ [][(strategy \notin Choices /\ Iterates) =>
             /\ last'.idx = 1
             /\ last'.url = Head(queue)
             /\ SubSeq(queue', 1, Len(queue) - 1) = Tail(queue)
             /\ momentum' = momentum]_vars

\* under an unknown strategy a page was fetched from the head of a list of
\* several entries
C13_Witness ==
    /\ strategy \notin Choices
    /\ last.ret = "ok"
    /\ last.idx = 1
    /\ queue # << >>

\* what polite_get can raise
Errors == {"PermissionError", "MemoryError", "Timeout", "HTTPError"}

\* C14: an iteration whose polite_get raises leaves visited, the rows and
\* cluster unchanged, takes out of the queue the entry it popped and nothing
\* else, and stays in the loop.
C14_FailureDropsOnlyTheURL ==
    [][(Called /\ last'.ret \in Errors) =>
         /\ visited' = visited
         /\ rows' = rows
         /\ cluster' = cluster
         /\ queue[last'.idx] = last'.url
         /\ queue' = SubSeq(queue, 1, last'.idx - 1)
                       \o SubSeq(queue, last'.idx + 1, Len(queue))
         /\ pc' = "loop"]_vars

\* a fetch failed after pages had been fetched and rows written, with
\* entries pending and budget left for the next iteration
C14_Witness ==
    /\ last.ret \in Errors
    /\ rows # << >>
    /\ queue # << >>
    /\ Cardinality(visited) < max_pages
    /\ pc = "loop"

\* C15 (as claimed): every iteration whose polite_get returns an HTML page
\* writes exactly one row for its URL, also when the parser raises.
C15_RowPerHtmlPage ==
    [][(Called /\ last'.ret = "ok" /\ is_html(last'.ctype)) =>
         rows' = Append(rows, last'.url)]_vars

\* list q without its entry at position i
Without(q, i) == SubSeq(q, 1, i - 1) \o SubSeq(q, i + 1, Len(q))

\* what is left of the entries that were pending before this iteration
Kept == SubSeq(queue', 1, Len(queue) - 1)

\* C16 (as claimed): under the quantum strategy, whichever position s the
\* sampler drew for the URL that was dequeued, the entries left are those
\* pending before with position s taken out.
C16_RemovesSampledIndex ==
    [][(strategy = "quantum" /\ Iterates) =>
         \A s \in quantum_draws[Len(queue)] :
            queue[s] = last'.url => Kept = Without(queue, s)]_vars

\* C16 (amended): under the quantum strategy the URL dequeued is the one at a
\* position the sampler can draw, and the entry taken out is the first one
\* that holds this URL, which is the drawn one when the URL is pending once.
C16_RemovesFirstOccurrence ==
    [][(strategy = "quantum" /\ Iterates) =>
         /\ \E s \in quantum_draws[Len(queue)] : queue[s] = last'.url
         /\ queue[last'.idx] = last'.url
         /\ \A j \in 1..(last'.idx - 1) : queue[j] # last'.url
         /\ Kept = Without(queue, last'.idx)]_vars

\* the quantum strategy dequeued a URL that is still pending further back,
\* behind an entry of another URL
C16_Witness ==
    /\ strategy = "quantum"
    /\ last.idx = 1
    /\ Len(queue) >= 2
    /\ queue[1] # last.url
    /\ \E i \in 2..Len(queue) : queue[i] = last.url

\* the first position of q whose URL is of host h; the first position of q
\* when there is none
FirstOfHost(q, h) ==
    IF \E i \in 1..Len(q) : netloc(q[i]) = h
    THEN CHOOSE i \in 1..Len(q) :
            netloc(q[i]) = h /\ \A j \in 1..(i - 1) : netloc(q[j]) # h
    ELSE 1

\* C17: under the ballistic strategy a dequeue takes the first entry of the
\* momentum host when momentum is set and the 0.85 trial succeeds (the entry
\* at index 0 when no entry is of that host), and the entry at index 0
\* otherwise; after it momentum is the host of the URL returned.
C17_Ballistic ==
    [][(strategy = "ballistic" /\ Iterates) =>
         /\ last'.idx = IF momentum # None /\ last'.coin
                        THEN FirstOfHost(queue, momentum) ELSE 1
         /\ last'.url = queue[last'.idx]
         /\ Kept = Without(queue, last'.idx)
         /\ momentum' = netloc(last'.url)]_vars

\* the trial succeeded and the entry taken was found behind the head of the
\* queue, which is of another host
C17_Witness ==
    /\ strategy = "ballistic"
    /\ last.coin
    /\ last.idx > 1
    /\ momentum = netloc(last.url)
    /\ queue # << >>
    /\ netloc(queue[1]) # momentum

\* C18: an iteration whose polite_get returns a page that is not HTML adds
\* the URL to visited, which then holds one URL more, writes no row, and
\* changes the queue only by taking out the entry it popped.
C18_NonHtmlCountsOnly ==
    [][(Called /\ last'.ret = "ok" /\ last'.ctype # "text/html") =>
         /\ last'.url \notin visited
         /\ visited' = visited \cup {last'.url}
         /\ Cardinality(visited') = Cardinality(visited) + 1
         /\ rows' = rows
         /\ queue' = Without(queue, last'.idx)
         /\ cluster' = cluster]_vars

\* the budget was used up by pages that are not HTML: the loop ended with
\* entries pending and no row written
C18_Witness ==
    /\ last.ret = "ok"
    /\ last.ctype = "image/png"
    /\ max_pages > 0
    /\ Cardinality(visited) = max_pages
    /\ rows = << >>
    /\ queue # << >>
    /\ pc = "done"

\* C19: polite_get is never called for a URL in visited, so no URL is
\* fetched with success twice; an iteration that dequeues a URL in visited
\* is a skip, which asks for no robots.txt, lets no time pass, sends no
\* request and changes nothing but the queue.
C19_VisitedNeverRefetched ==
    /\ [][Called => last'.url \notin visited /\ last'.ret # "skip"]_vars
    /\ [][(Iterates /\ queue[last'.idx] \in visited) =>
             /\ last'.ret = "skip"
             /\ ~last'.asked
             /\ last'.slept = 0
             /\ queue' = Without(queue, last'.idx)
             /\ UNCHANGED <<robots, now, host_last, host_bytes, calls,
                            req_at, visited, rows, failed, cluster>>]_vars

\* the second entry of a page that is not HTML was dequeued and skipped:
\* two dequeues, one call of polite_get
C19_Witness ==
    /\ last.ret = "skip"
    /\ last.url \in visited
    /\ last.url \notin RowURLs
    /\ calls = 1

\* C20: robots.txt of a host is requested by the first call of polite_get
\* for the host and by no other: the call that requests it stores rules for
\* the host, also when reading raised, and rules once stored are neither
\* replaced nor dropped, so every later call finds them.
C20_RobotsOncePerHost ==
    /\ [][\A h \in DOMAIN robots :
             h \in DOMAIN robots' /\ robots'[h] = robots[h]]_vars
    /\ [][Called =>
             /\ last'.asked <=> netloc(last'.url) \notin DOMAIN robots
             /\ DOMAIN robots' = DOMAIN robots \cup {netloc(last'.url)}]_vars
    /\ [][~Called => robots' = robots]_vars

\* a later call for a host whose robots.txt could not be read used the
\* stored rules and sent no second request for it
C20_Witness ==
    /\ calls >= 2
    /\ last.ret \in Errors \cup {"ok"}
    /\ ~last.asked
    /\ robots[netloc(last.url)].outcome = "raised"

====
